---- MODULE Spec2Model ----
(***************************************************************************)
(* Model of library/index.ts of vue-composition-popup-login: the           *)
(* process-wide login options, the broadcast channel with its queue of     *)
(* pending waiters, the session state store (check), the popup handshake   *)
(* (login, showLoginPopup), the need matcher (authorize), the              *)
(* orchestrator (loginAndAuthorize) and the router guard of the plugin.    *)
(***************************************************************************)
EXTENDS Integers, Sequences, FiniteSets, TLC

(***************************************************************************)
(* Bounds of the model.                                                    *)
(***************************************************************************)
\* longest needsRequired list handed to a direct authorize() call
MaxRequired == 2
\* longest needsProvided list handed to a direct authorize() call
MaxProvided == 2
\* number of login() calls the application makes
MaxLogins == 2

(***************************************************************************)
(* Module constants, index.ts lines 18-22.                                 *)
(***************************************************************************)
DEFAULT_LOGIN_URL == "/auth/login"
DEFAULT_COMPLETE_URL == "/auth/complete"
DEFAULT_LOGOUT_URL == "/auth/logout"
DEFAULT_STATE_URL == "/auth/state"
DEFAULT_NEXT_QUERY_PARAM == "next"

\* null / undefined of a string-valued or function-valued option
Null == "<null>"

\* JavaScript's  a || b  on string-valued options: null, undefined and the
\* empty string are falsy
OrElse(a, b) == IF a \in {Null, ""} THEN b ELSE a

(***************************************************************************)
(* Needs (types Need, AuthenticationState).  A need is a string, a         *)
(* function or an object; all three are carried in one record shape so     *)
(* that any two needs can be compared.  An object need is its field        *)
(* table: Absent marks a field the object does not have.                   *)
(***************************************************************************)
Keys == {"a", "b", "length"}
Absent == -1
NoFields == [k \in Keys |-> Absent]

StringNeed(s) == [kind |-> "string", s |-> s, fn |-> "", o |-> NoFields]
FunctionNeed(f) == [kind |-> "function", s |-> "", fn |-> f, o |-> NoFields]
ObjectNeed(o) == [kind |-> "object", s |-> "", fn |-> "", o |-> o]

Fields(a, b, l) == [k \in Keys |-> IF k = "a" THEN a ELSE IF k = "b" THEN b ELSE l]

\* the function needs of the model: what each resolves to and how many
\* parameters it declares (Function.length)
FunctionNames == {"allow", "deny", "one"}
JsBool(b) == [t |-> "boolean", b |-> b, n |-> 0]
JsNum(n) == [t |-> "number", b |-> FALSE, n |-> n]
FunctionResult(f) ==
    CASE f = "allow" -> JsBool(TRUE)
      [] f = "deny" -> JsBool(FALSE)
      [] OTHER -> JsNum(1)
FunctionArity(f) == IF f = "allow" THEN 3 ELSE 0

\* a comparison with true in place of the truthiness test
Truthy_strict(v) == v.t = "boolean" /\ v.b

\* truthiness of a JavaScript boolean or number
Truthy(v) == IF v.t = "boolean" THEN v.b ELSE v.n # 0

StringNeeds == {StringNeed("admin"), StringNeed("dev")}
FunctionNeeds == {FunctionNeed(f) : f \in FunctionNames}
ObjectNeeds == {ObjectNeed(Fields(1, Absent, Absent)),
                ObjectNeed(Fields(1, 2, Absent)),
                ObjectNeed(Fields(2, Absent, Absent)),
                ObjectNeed(Fields(Absent, Absent, 3))}
Needs == StringNeeds \cup FunctionNeeds \cup ObjectNeeds

\* an optional array: undefined, or an array
Undefined == [present |-> FALSE, list |-> <<>>]
Arr(l) == [present |-> TRUE, list |-> l]
\* needs || []
OrEmpty(x) == IF x.present THEN x.list ELSE <<>>

SeqsUpTo(S, n) == UNION {[1..k -> S] : k \in 0..n}

(***************************************************************************)
(* lodash isMatch(object, source) on flat sources: every field of source   *)
(* is a field of Object(object) with the same value.  Object(string) has   *)
(* the field length, and so has a function.                                *)
(***************************************************************************)
Props(n) ==
    CASE n.kind = "string" -> Fields(Absent, Absent, Len(n.s))
      [] n.kind = "function" -> Fields(Absent, Absent, FunctionArity(n.fn))
      [] OTHER -> n.o

isMatch(n, source) ==
    \A k \in Keys : source.o[k] # Absent => Props(n)[k] = source.o[k]

\* a search that stops at the type of the entries
indexOfFound_anyString(needsProvided, requiredNeed) ==
    \E j \in 1..Len(needsProvided) : needsProvided[j].kind = requiredNeed.kind

\* needsProvided.indexOf(requiredNeed) >= 0
indexOfFound(needsProvided, requiredNeed) ==
    \E j \in 1..Len(needsProvided) : needsProvided[j] = requiredNeed

\* the same without the typeof test on the provided need
someMatch_noTypeFilter(needsProvided, requiredNeed) ==
    \E j \in 1..Len(needsProvided) : isMatch(needsProvided[j], requiredNeed)

\* needsProvided.some(n => typeof n is string or function ? false : isMatch(n, requiredNeed))
someMatch(needsProvided, requiredNeed) ==
    \E j \in 1..Len(needsProvided) :
        LET n == needsProvided[j] IN
        IF n.kind = "string" \/ n.kind = "function"
        THEN FALSE
        ELSE isMatch(n, requiredNeed)

(***************************************************************************)
(* authorize(state, needsRequired, needsProvided, extra) as a frame that   *)
(* is advanced one loop iteration at a time (a function need is awaited).  *)
(***************************************************************************)
NoFrame == [status |-> "none", args |-> <<Undefined, Undefined>>,
            needsRequired |-> <<>>, needsProvided |-> <<>>,
            i |-> 1, calls |-> <<>>, result |-> FALSE]

\* entry of authorize: the two sanity defaults, then the loop starts
authorizeCall(needsRequired, needsProvided) ==
    [status |-> "running",
     args |-> <<needsRequired, needsProvided>>,
     needsRequired |-> OrEmpty(needsRequired),
     needsProvided |-> OrEmpty(needsProvided),
     i |-> 1, calls |-> <<>>, result |-> FALSE]

authorizeReturn(f, r) == [f EXCEPT !.status = "returned", !.result = r]

\* a loop that gives up at the first required need that is not satisfied
authorizeStep_firstNeedOnly(f) ==
    IF f.i > Len(f.needsRequired)
    THEN authorizeReturn(f, FALSE)
    ELSE LET requiredNeed == f.needsRequired[f.i]
             called == IF requiredNeed.kind = "function"
                       THEN [f EXCEPT !.calls = Append(f.calls, requiredNeed.fn)]
                       ELSE f
         IN authorizeReturn(called,
                CASE requiredNeed.kind = "string" ->
                        indexOfFound(f.needsProvided, requiredNeed)
                  [] requiredNeed.kind = "function" ->
                        Truthy(FunctionResult(requiredNeed.fn))
                  [] OTHER -> someMatch(f.needsProvided, requiredNeed))

\* one iteration of  for (const requiredNeed of needsRequired)
authorizeStep(f) ==
    IF f.i > Len(f.needsRequired)
    THEN authorizeReturn(f, FALSE)
    ELSE LET requiredNeed == f.needsRequired[f.i]
             next == [f EXCEPT !.i = f.i + 1]
         IN CASE requiredNeed.kind = "string" ->
                    IF indexOfFound(f.needsProvided, requiredNeed)
                    THEN authorizeReturn(f, TRUE)
                    ELSE next
              [] requiredNeed.kind = "function" ->
                    LET called == [next EXCEPT !.calls = Append(f.calls, requiredNeed.fn)]
                    IN IF Truthy(FunctionResult(requiredNeed.fn))
                       THEN authorizeReturn([f EXCEPT !.calls = called.calls], TRUE)
                       ELSE called
              [] OTHER ->
                    IF someMatch(f.needsProvided, requiredNeed)
                    THEN authorizeReturn(f, TRUE)
                    ELSE next

(***************************************************************************)
(* The inputs of the model.                                                *)
(***************************************************************************)
\* the options records handed to usePopupLogin / Vue.use(popupLoginPlugin)
UseOptions ==
    { [loginUrl |-> Null, logoutUrl |-> "", completeUrl |-> Null,
       redirectionCompleteUrl |-> "", stateUrl |-> Null, nextQueryParam |-> "",
       loginStateTransformer |-> Null, popupFailedNotifier |-> Null,
       noAccessNotifier |-> "user"],
      [loginUrl |-> "/sso/login", logoutUrl |-> "/sso/logout", completeUrl |-> "/sso/complete",
       redirectionCompleteUrl |-> "/sso/back", stateUrl |-> "/sso/state", nextQueryParam |-> "return",
       loginStateTransformer |-> "withNeeds", popupFailedNotifier |-> "user",
       noAccessNotifier |-> "user"] }

\* the bodies the state endpoint answers with
Payloads ==
    { [loggedIn |-> FALSE, needsProvided |-> Undefined],
      [loggedIn |-> TRUE, needsProvided |-> Arr(<<>>)],
      [loggedIn |-> TRUE, needsProvided |-> Arr(<<StringNeed("admin")>>)] }

\* the messages other windows post on the channel (LoginMessage.status)
Messages == {"success", "error"}

\* needsRequired of the application's own loginAndAuthorize calls
AppNeedsRequired ==
    { Arr(<<>>), Arr(<<FunctionNeed("deny"), StringNeed("admin")>>) }

\* meta of the routes navigated to (RouteMeta.authorization)
RouteMetas ==
    { [authorization |-> FALSE, needsRequired |-> Undefined],
      [authorization |-> TRUE, needsRequired |-> Undefined],
      [authorization |-> TRUE, needsRequired |-> Arr(<<StringNeed("admin")>>)] }

LoginIds == 1..MaxLogins

AppHref == [path |-> "/app", param |-> "", next |-> [url |-> "", normalized |-> FALSE]]
RejectReason == "Could not open popup window and redirection has not been allowed"

VARIABLES
    loginOptions,   \* the reactive options record (index.ts 24-34)
    channel,        \* loginData.channel: BroadcastChannels created, handlers installed
    promises,       \* loginData.promises, the queue of pending waiters
    loginState,     \* loginState.value
    useArgs,        \* the options of the latest usePopupLogin call
    http,           \* the callers whose axios.get(stateUrl) is in flight
    href,           \* window.location.href
    logins,         \* the login() calls and what became of their promises
    chk,            \* the application's check() call
    la,             \* the loginAndAuthorize call
    guard,          \* the router's beforeEach guard
    drained,        \* the handler's local promises at the latest message
    noAccess,       \* the noAccessNotifier invocations: (state, extra)
    az              \* a direct authorize() call

vars == <<loginOptions, channel, promises, loginState, useArgs, http, href,
          logins, chk, la, guard, drained, noAccess, az>>

InitialLoginState == [loggedIn |-> FALSE, needsProvided |-> Arr(<<>>)]
NoOptions == [loginUrl |-> Null, logoutUrl |-> Null, completeUrl |-> Null,
              redirectionCompleteUrl |-> Null, stateUrl |-> Null,
              nextQueryParam |-> Null, loginStateTransformer |-> Null,
              popupFailedNotifier |-> Null, noAccessNotifier |-> Null]

NoLogin == [status |-> "none", popup |-> FALSE, redirectionOk |-> FALSE, reason |-> ""]
NoCheck == [pc |-> "idle", localStateSufficient |-> FALSE, fetched |-> FALSE,
            result |-> InitialLoginState]
NoLa == [pc |-> "idle", caller |-> "", needsRequired |-> Undefined,
         authState |-> InitialLoginState, frame |-> NoFrame, result |-> FALSE]
NoMeta == [authorization |-> FALSE, needsRequired |-> Undefined]

InitProgram ==
    /\ loginOptions = NoOptions
    /\ channel = [created |-> 0, onmessage |-> 0]
    /\ promises = <<>>
    /\ loginState = InitialLoginState
    /\ useArgs = NoOptions
    /\ http = {}
    /\ href = AppHref
    /\ logins = [id \in LoginIds |-> NoLogin]
    /\ chk = NoCheck
    /\ la = NoLa
    /\ guard = [installed |-> FALSE, pc |-> "idle", nexts |-> 0, meta |-> NoMeta]
    /\ drained = <<>>
    /\ noAccess = <<>>

Init ==
    /\ InitProgram
    /\ az = NoFrame

\* the composition functions exist once usePopupLogin has returned them, and
\* the page runs until it is left for the login page
Running == useArgs # NoOptions /\ href = AppHref

(***************************************************************************)
(* usePopupLogin (index.ts 60-99): the first call fills the options,       *)
(* creates the channel and installs its message handler.                   *)
(***************************************************************************)
\* a first-call test on an option that may stay null
Uninitialized_nullableOption == loginOptions.redirectionCompleteUrl \in {Null, ""}

\* line 72, !loginOptions.loginUrl
Uninitialized == loginOptions.loginUrl \in {Null, ""}

usePopupLogin(o) ==
    /\ useArgs' = o
    /\ IF Uninitialized
       THEN /\ loginOptions' =
                 [loginUrl |-> OrElse(o.loginUrl, DEFAULT_LOGIN_URL),
                  logoutUrl |-> OrElse(o.logoutUrl, DEFAULT_LOGOUT_URL),
                  completeUrl |-> OrElse(o.completeUrl, DEFAULT_COMPLETE_URL),
                  redirectionCompleteUrl |-> OrElse(o.redirectionCompleteUrl, Null),
                  stateUrl |-> OrElse(o.stateUrl, DEFAULT_STATE_URL),
                  nextQueryParam |-> OrElse(o.nextQueryParam, DEFAULT_NEXT_QUERY_PARAM),
                  loginStateTransformer |-> o.loginStateTransformer,
                  noAccessNotifier |-> o.noAccessNotifier,
                  popupFailedNotifier |-> OrElse(o.popupFailedNotifier, "default")]
            /\ channel' = [created |-> channel.created + 1,
                           onmessage |-> channel.onmessage + 1]
       ELSE UNCHANGED <<loginOptions, channel>>

\* the application calls usePopupLogin itself (composition style)
UsePopupLogin ==
    /\ href = AppHref
    /\ \E o \in UseOptions : usePopupLogin(o)
    /\ UNCHANGED <<promises, loginState, http, href, logins, chk, la, guard,
                   drained, noAccess, az>>

\* Vue.use(popupLoginPlugin, options) with a router (index.ts 223-249); Vue
\* installs a plugin once
PopupLoginPlugin ==
    /\ href = AppHref
    /\ ~guard.installed
    /\ \E o \in UseOptions : usePopupLogin(o)
    /\ guard' = [guard EXCEPT !.installed = TRUE]
    /\ UNCHANGED <<promises, loginState, http, href, logins, chk, la,
                   drained, noAccess, az>>

(***************************************************************************)
(* The channel's message handler (index.ts 89-98): it takes the queue      *)
(* into a local constant and empties the queue.  notify() is declared      *)
(* and never called, so the handler ends there.                            *)
(***************************************************************************)
\* a handler that takes one waiter for each message
onmessage_takesFirst(msg) ==
    /\ drained' = IF promises = <<>> THEN <<>> ELSE <<Head(promises)>>
    /\ promises' = IF promises = <<>> THEN <<>> ELSE Tail(promises)

onmessage(msg) ==
    /\ drained' = promises
    /\ promises' = <<>>

OnMessage ==
    /\ Running
    /\ channel.onmessage > 0
    /\ \E msg \in Messages : onmessage(msg)
    /\ UNCHANGED <<loginOptions, channel, loginState, useArgs, http, href,
                   logins, chk, la, guard, noAccess, az>>

(***************************************************************************)
(* check (index.ts 118-129).                                               *)
(***************************************************************************)
\* the user's loginStateTransformer of the model: it defaults needsProvided
withNeeds(data) ==
    [loggedIn |-> data.loggedIn, needsProvided |-> Arr(OrEmpty(data.needsProvided))]

\* lines 123-127: the state stored for a response body
checkStore(data) ==
    IF loginOptions.loginStateTransformer # Null
    THEN withNeeds(data)
    ELSE data

\* a fast path that does not look at its argument
checkCached_ignoresArgument(localStateSufficient) == loginState.loggedIn

\* line 119: the cache-trust fast path
checkCached(localStateSufficient) == loginState.loggedIn /\ localStateSufficient

\* the application calls check(localStateSufficient)
check(localStateSufficient) ==
    IF checkCached(localStateSufficient)
    THEN /\ chk' = [pc |-> "returned", localStateSufficient |-> localStateSufficient,
                    fetched |-> FALSE, result |-> loginState]
         /\ UNCHANGED http
    ELSE /\ chk' = [pc |-> "fetching", localStateSufficient |-> localStateSufficient,
                    fetched |-> TRUE, result |-> InitialLoginState]
         /\ http' = http \cup {"check"}

Check ==
    /\ Running
    /\ chk.pc = "idle"
    /\ \E b \in BOOLEAN : check(b)
    /\ UNCHANGED <<loginOptions, channel, promises, loginState, useArgs, href,
                   logins, la, guard, drained, noAccess, az>>

\* the application's check resumes after its await with the response body
CheckResumes ==
    /\ Running
    /\ chk.pc = "fetching"
    /\ "check" \in http
    /\ http' = http \ {"check"}
    /\ \E data \in Payloads :
          /\ loginState' = checkStore(data)
          /\ chk' = [chk EXCEPT !.pc = "returned", !.result = loginState']
    /\ UNCHANGED <<loginOptions, channel, promises, useArgs, href,
                   logins, la, guard, drained, noAccess, az>>

\* a failure that resets the session state
CheckFails_resetsState ==
    /\ Running
    /\ chk.pc = "fetching"
    /\ "check" \in http
    /\ http' = http \ {"check"}
    /\ chk' = [NoCheck EXCEPT !.pc = "failed"]
    /\ loginState' = InitialLoginState
    /\ UNCHANGED <<loginOptions, channel, promises, useArgs, href,
                   logins, la, guard, drained, noAccess, az>>

\* the request or the transformer fails: check() throws to its caller
CheckFails ==
    /\ Running
    /\ chk.pc = "fetching"
    /\ "check" \in http
    /\ http' = http \ {"check"}
    /\ chk' = [NoCheck EXCEPT !.pc = "failed"]
    /\ UNCHANGED <<loginOptions, channel, promises, loginState, useArgs, href,
                   logins, la, guard, drained, noAccess, az>>

\* the application takes the outcome of its check() call
CheckSettled ==
    /\ Running
    /\ chk.pc \in {"returned", "failed"}
    /\ chk' = NoCheck
    /\ UNCHANGED <<loginOptions, channel, promises, loginState, useArgs, http, href,
                   logins, la, guard, drained, noAccess, az>>

(***************************************************************************)
(* login and _handleFailedLoginPopup (index.ts 101-116, 131-145).          *)
(***************************************************************************)
checkWaiter(id) == [kind |-> "check", login |-> id, la |-> ""]
resolveWaiter(id) == [kind |-> "resolve", login |-> id, la |-> ""]
popupWaiter(c) == [kind |-> "showLoginPopup", login |-> 0, la |-> c]

\* normalizeUrl (./url), left uninterpreted
normalizeUrl(u) == [url |-> u, normalized |-> TRUE]
Raw(u) == [url |-> u, normalized |-> FALSE]

\* an executor that puts both waiters at the tail
login_pushesBoth(id, currentPopup) ==
    IF ~currentPopup
    THEN /\ logins' = [logins EXCEPT ![id] = [NoLogin EXCEPT !.status = "notifying"]]
         /\ UNCHANGED promises
    ELSE /\ promises' = promises \o <<checkWaiter(id), resolveWaiter(id)>>
         /\ logins' = [logins EXCEPT ![id] =
                          [NoLogin EXCEPT !.status = "waiting", !.popup = TRUE]]

\* an executor that queues the resolving waiter ahead of the refresh
login_resolverFirst(id, currentPopup) ==
    IF ~currentPopup
    THEN /\ logins' = [logins EXCEPT ![id] = [NoLogin EXCEPT !.status = "notifying"]]
         /\ UNCHANGED promises
    ELSE /\ promises' = <<resolveWaiter(id)>> \o promises \o <<checkWaiter(id)>>
         /\ logins' = [logins EXCEPT ![id] =
                          [NoLogin EXCEPT !.status = "waiting", !.popup = TRUE]]

\* lines 136-144, the executor of the promise login() returns
login(id, currentPopup) ==
    IF ~currentPopup
    THEN \* _handleFailedLoginPopup(reject): the notifier is called, its promise pends
         /\ logins' = [logins EXCEPT ![id] = [NoLogin EXCEPT !.status = "notifying"]]
         /\ UNCHANGED promises
    ELSE /\ promises' = <<checkWaiter(id)>> \o promises \o <<resolveWaiter(id)>>
         /\ logins' = [logins EXCEPT ![id] =
                          [NoLogin EXCEPT !.status = "waiting", !.popup = TRUE]]

\* the application calls login(); window.open gives a window or null
Login ==
    /\ Running
    /\ \E id \in LoginIds :
          /\ logins[id].status = "none"
          /\ \A j \in LoginIds : j < id => logins[j].status # "none"
          /\ \E currentPopup \in BOOLEAN : login(id, currentPopup)
    /\ UNCHANGED <<loginOptions, channel, loginState, useArgs, http, href,
                   chk, la, guard, drained, noAccess, az>>

\* a callback that redirects whatever the answer
handleFailedLoginPopup_redirectsAnyway(id, redirectionOk) ==
    /\ href' = [path |-> loginOptions.loginUrl,
                param |-> loginOptions.nextQueryParam,
                next |-> Raw(href.path)]
    /\ logins' = [logins EXCEPT ![id].status = "redirected",
                                ![id].redirectionOk = redirectionOk]

\* a callback that always returns to the current location
handleFailedLoginPopup_ignoresCompleteUrl(id, redirectionOk) ==
    IF ~redirectionOk
    THEN /\ logins' = [logins EXCEPT ![id].status = "rejected",
                                     ![id].redirectionOk = redirectionOk,
                                     ![id].reason = RejectReason]
         /\ UNCHANGED href
    ELSE /\ href' = [path |-> loginOptions.loginUrl,
                     param |-> loginOptions.nextQueryParam,
                     next |-> Raw(href.path)]
         /\ logins' = [logins EXCEPT ![id].status = "redirected",
                                     ![id].redirectionOk = redirectionOk]

\* lines 102-115, the then-callback with the notifier's answer
handleFailedLoginPopup(id, redirectionOk) ==
    IF ~redirectionOk
    THEN /\ logins' = [logins EXCEPT ![id].status = "rejected",
                                     ![id].redirectionOk = redirectionOk,
                                     ![id].reason = RejectReason]
         /\ UNCHANGED href
    ELSE /\ href' = [path |-> loginOptions.loginUrl,
                     param |-> loginOptions.nextQueryParam,
                     next |-> IF loginOptions.redirectionCompleteUrl # Null
                              THEN normalizeUrl(loginOptions.redirectionCompleteUrl)
                              ELSE Raw(href.path)]
         /\ logins' = [logins EXCEPT ![id].status = "redirected",
                                     ![id].redirectionOk = redirectionOk]

\* loginOptions.popupFailedNotifier() resolves and the callback runs: the
\* default notifier resolves true, a user's notifier either way
PopupFailedNotified ==
    /\ Running
    /\ \E id \in LoginIds :
          /\ logins[id].status = "notifying"
          /\ \E redirectionOk \in
                 (IF loginOptions.popupFailedNotifier = "default" THEN {TRUE} ELSE BOOLEAN) :
                handleFailedLoginPopup(id, redirectionOk)
    /\ UNCHANGED <<loginOptions, channel, promises, loginState, useArgs, http,
                   chk, la, guard, drained, noAccess, az>>

(***************************************************************************)
(* showLoginPopup and loginAndAuthorize (index.ts 147-152, 194-204).       *)
(* One loginAndAuthorize call is in flight at a time, the application's    *)
(* or the guard's.                                                         *)
(***************************************************************************)
\* a showLoginPopup that calls the notifier before and after queueing
loginAndAuthorizeChecked_notifiesTwice(c, needsRequired, authState, state) ==
    IF ~authState.loggedIn
    THEN /\ promises' = Append(promises, popupWaiter(c))
         /\ noAccess' = noAccess \o <<[state |-> state, extra |-> c],
                                      [state |-> state, extra |-> c]>>
         /\ la' = [pc |-> "popup", caller |-> c, needsRequired |-> needsRequired,
                   authState |-> authState, frame |-> NoFrame, result |-> FALSE]
    ELSE /\ la' = [pc |-> "authorize", caller |-> c, needsRequired |-> needsRequired,
                   authState |-> authState,
                   frame |-> authorizeCall(needsRequired, authState.needsProvided),
                   result |-> FALSE]
         /\ UNCHANGED <<promises, noAccess>>

\* lines 196-203 once check(true) has returned authState; state is the value
\* of loginState at that moment
loginAndAuthorizeChecked(c, needsRequired, authState, state) ==
    IF ~authState.loggedIn
    THEN \* showLoginPopup(extra): push the resolver, call the notifier, wait
         /\ promises' = Append(promises, popupWaiter(c))
         /\ noAccess' = Append(noAccess, [state |-> state, extra |-> c])
         /\ la' = [pc |-> "popup", caller |-> c, needsRequired |-> needsRequired,
                   authState |-> authState, frame |-> NoFrame, result |-> FALSE]
    ELSE /\ la' = [pc |-> "authorize", caller |-> c, needsRequired |-> needsRequired,
                   authState |-> authState,
                   frame |-> authorizeCall(needsRequired, authState.needsProvided),
                   result |-> FALSE]
         /\ UNCHANGED <<promises, noAccess>>

\* line 195, check(true), and what follows when it returns at once
loginAndAuthorize(c, needsRequired) ==
    IF checkCached(TRUE)
    THEN /\ loginAndAuthorizeChecked(c, needsRequired, loginState, loginState)
         /\ UNCHANGED http
    ELSE /\ http' = http \cup {"loginAndAuthorize"}
         /\ la' = [NoLa EXCEPT !.pc = "check", !.caller = c,
                               !.needsRequired = needsRequired]
         /\ UNCHANGED <<promises, noAccess>>

\* lines 199-203, the continuation of a call whose showLoginPopup promise
\* is resolved: the call as it goes on from the current state
loginAndAuthorizeShown(call) ==
    IF ~loginState.loggedIn
    THEN [call EXCEPT !.pc = "returned", !.result = FALSE]
    ELSE [call EXCEPT !.pc = "authorize",
                      !.frame = authorizeCall(call.needsRequired,
                                              call.authState.needsProvided)]

\* the application calls loginAndAuthorize
LoginAndAuthorize ==
    /\ Running
    /\ la.pc = "idle"
    /\ guard.pc # "waiting"
    /\ \E needsRequired \in AppNeedsRequired : loginAndAuthorize("app", needsRequired)
    /\ UNCHANGED <<loginOptions, channel, loginState, useArgs, href, logins, chk,
                   guard, drained, az>>

\* the loginAndAuthorize call resumes after  await check(true)
LaCheckResumes ==
    /\ Running
    /\ la.pc = "check"
    /\ "loginAndAuthorize" \in http
    /\ http' = http \ {"loginAndAuthorize"}
    /\ \E data \in Payloads :
          /\ loginState' = checkStore(data)
          /\ loginAndAuthorizeChecked(la.caller, la.needsRequired, loginState', loginState')
    /\ UNCHANGED <<loginOptions, channel, useArgs, href, logins, chk, guard,
                   drained, az>>

\* check(true) throws inside loginAndAuthorize, which throws to its caller
LaCheckFails ==
    /\ Running
    /\ la.pc = "check"
    /\ "loginAndAuthorize" \in http
    /\ http' = http \ {"loginAndAuthorize"}
    /\ la' = [la EXCEPT !.pc = "failed"]
    /\ UNCHANGED <<loginOptions, channel, promises, loginState, useArgs, href, logins,
                   chk, guard, drained, noAccess, az>>

\* one iteration of the matcher's loop inside the loginAndAuthorize call
LaAuthorizeStep ==
    /\ Running
    /\ la.pc = "authorize"
    /\ LET f == authorizeStep(la.frame) IN
       la' = [la EXCEPT !.frame = f,
                        !.pc = IF f.status = "returned" THEN "returned" ELSE @,
                        !.result = f.result]
    /\ UNCHANGED <<loginOptions, channel, promises, loginState, useArgs, http, href,
                   logins, chk, guard, drained, noAccess, az>>

\* the application takes the outcome of its loginAndAuthorize call
LaSettled ==
    /\ Running
    /\ la.caller = "app"
    /\ la.pc \in {"returned", "failed"}
    /\ la' = NoLa
    /\ UNCHANGED <<loginOptions, channel, promises, loginState, useArgs, http, href,
                   logins, chk, guard, drained, noAccess, az>>

(***************************************************************************)
(* The router guard (index.ts 230-247).                                    *)
(***************************************************************************)
\* router.beforeEach fires for a navigation
Navigate ==
    /\ Running
    /\ guard.installed
    /\ guard.pc = "idle"
    /\ la.pc = "idle"
    /\ \E meta \in RouteMetas :
          IF ~meta.authorization
          THEN /\ guard' = [guard EXCEPT !.meta = meta, !.nexts = 1]
               /\ UNCHANGED <<la, http, promises, noAccess>>
          ELSE /\ guard' = [guard EXCEPT !.meta = meta, !.nexts = 0, !.pc = "waiting"]
               /\ loginAndAuthorize("guard", Arr(OrEmpty(meta.needsRequired)))
    /\ UNCHANGED <<loginOptions, channel, loginState, useArgs, href, logins, chk,
                   drained, az>>

\* a guard that goes on with the navigation whatever the result
GuardResumes_nextOnAnyResult ==
    /\ Running
    /\ guard.pc = "waiting"
    /\ la.caller = "guard"
    /\ la.pc \in {"returned", "failed"}
    /\ guard' = [guard EXCEPT !.pc = "idle", !.nexts = @ + 1]
    /\ la' = NoLa
    /\ UNCHANGED <<loginOptions, channel, promises, loginState, useArgs, http, href,
                   logins, chk, drained, noAccess, az>>

\* the guard resumes after  await $auth.loginAndAuthorize(...)
GuardResumes ==
    /\ Running
    /\ guard.pc = "waiting"
    /\ la.caller = "guard"
    /\ la.pc \in {"returned", "failed"}
    /\ IF la.pc = "failed"
       THEN /\ guard' = [guard EXCEPT !.pc = "failed"]
            /\ la' = NoLa
            /\ UNCHANGED <<http, promises, noAccess>>
       ELSE IF la.result
       THEN /\ guard' = [guard EXCEPT !.pc = "idle", !.nexts = @ + 1]
            /\ la' = NoLa
            /\ UNCHANGED <<http, promises, noAccess>>
       ELSE /\ loginAndAuthorize("guard", Arr(OrEmpty(guard.meta.needsRequired)))
            /\ UNCHANGED guard
    /\ UNCHANGED <<loginOptions, channel, loginState, useArgs, href, logins, chk,
                   drained, az>>

Next ==
    \/ UsePopupLogin
    \/ PopupLoginPlugin
    \/ OnMessage
    \/ Check
    \/ CheckResumes
    \/ CheckFails
    \/ CheckSettled
    \/ Login
    \/ PopupFailedNotified
    \/ LoginAndAuthorize
    \/ LaCheckResumes
    \/ LaCheckFails
    \/ LaAuthorizeStep
    \/ LaSettled
    \/ Navigate
    \/ GuardResumes

Spec == Init /\ [][Next]_vars

(***************************************************************************)
(* The need matcher on its own: every authorize(state, needsRequired,      *)
(* needsProvided, extra) call with lists up to the bounds.                 *)
(***************************************************************************)
InitAuthorize ==
    /\ InitProgram
    /\ \E r \in {Undefined} \cup {Arr(l) : l \in SeqsUpTo(Needs, MaxRequired)} :
       \E p \in {Undefined} \cup {Arr(l) : l \in SeqsUpTo(Needs, MaxProvided)} :
          az = authorizeCall(r, p)

AuthorizeStep ==
    /\ az.status = "running"
    /\ az' = authorizeStep(az)
    /\ UNCHANGED <<loginOptions, channel, promises, loginState, useArgs, http, href,
                   logins, chk, la, guard, drained, noAccess>>

SpecAuthorize == InitAuthorize /\ [][AuthorizeStep]_vars

(***************************************************************************)
(* The continuations the event loop still has to run: a state without      *)
(* any is one in which the program does nothing more until the             *)
(* application or another window acts.                                     *)
(***************************************************************************)
Continuations ==
    \/ CheckResumes
    \/ CheckFails
    \/ PopupFailedNotified
    \/ LaCheckResumes
    \/ LaCheckFails
    \/ LaAuthorizeStep
    \/ GuardResumes

Quiescent == href = AppHref /\ ~ENABLED Continuations

InDrained(w) == \E k \in 1..Len(drained) : drained[k] = w
InQueue(w) == \E k \in 1..Len(promises) : promises[k] = w

(***************************************************************************)
(* C1.  When a message arrives, every waiter that was in the queue is      *)
(* invoked with it: once nothing is left to run, each login() whose        *)
(* resolving waiter the handler took has its promise resolved, and a       *)
(* loginAndAuthorize whose showLoginPopup waiter it took has gone on.      *)
(***************************************************************************)
C1_DrainedWaitersInvoked ==
    Quiescent =>
        /\ \A id \in LoginIds :
              InDrained(resolveWaiter(id)) => logins[id].status = "resolved"
        /\ \A k \in 1..Len(drained) :
              drained[k].kind = "showLoginPopup" => la.pc # "popup"

(***************************************************************************)
(* C2.  Two login() calls whose popups opened, then one message: once      *)
(* nothing is left to run, both promises are resolved.  The queue the      *)
(* single message took is the one the two calls built.                     *)
(***************************************************************************)
C2_BothLoginsResolvedByOneMessage ==
    (Quiescent /\ drained = <<checkWaiter(2), checkWaiter(1),
                              resolveWaiter(1), resolveWaiter(2)>>)
        => (logins[1].status = "resolved" /\ logins[2].status = "resolved")

(***************************************************************************)
(* C3.  A loginAndAuthorize call that found the session not logged in,     *)
(* whose showLoginPopup waiter a message took together with the waiters    *)
(* of a login(), and which finds the session logged in, goes on to the     *)
(* matcher with the provided needs of the session state as it is then.     *)
(***************************************************************************)
C3_MatcherGetsRefreshedNeeds ==
    (/\ la.pc = "popup"
     /\ InDrained(popupWaiter(la.caller))
     /\ \E id \in LoginIds : InDrained(resolveWaiter(id))
     /\ loginState.loggedIn)
        => LET call == loginAndAuthorizeShown(la) IN
           /\ call.pc = "authorize"
           /\ call.frame.needsProvided = OrEmpty(loginState.needsProvided)

(***************************************************************************)
(* C4.  loginAndAuthorize with an empty needsRequired list on a            *)
(* logged-in session returns true.                                         *)
(***************************************************************************)
C4_EmptyRequirementsGranted ==
    (la.pc = "returned" /\ OrEmpty(la.needsRequired) = <<>> /\ la.authState.loggedIn)
        => la.result = TRUE

(***************************************************************************)
(* C5.  When the popup could not be opened and the popupFailedNotifier     *)
(* has resolved false, the callback rejects the promise of login() with    *)
(* the "redirection has not been allowed" reason, leaves the location      *)
(* and the queue alone, and the promise stays rejected.                    *)
(***************************************************************************)
C5_RejectsWhenRedirectionDeclined ==
    [][\A id \in LoginIds :
          /\ (/\ logins[id].status = "notifying"
              /\ logins'[id].status # "notifying"
              /\ ~logins'[id].redirectionOk)
                => /\ logins'[id].status = "rejected"
                   /\ logins'[id].reason = RejectReason
                   /\ ~logins'[id].popup
                   /\ href' = href
                   /\ promises' = promises
          /\ logins[id].status = "rejected" => logins'[id] = logins[id]]_vars

C5_Witness ==
    \E id \in LoginIds :
        /\ logins[id].status = "rejected"
        /\ logins[id].reason = RejectReason
        /\ ~logins[id].redirectionOk
        /\ href = AppHref

(***************************************************************************)
(* C6.  check(true) with a logged-in cached state returns the cached       *)
(* state, starts no request and leaves the session state alone; every      *)
(* other check call starts a request, and the response body, transformed   *)
(* when a transformer is configured, becomes the session state and the     *)
(* value returned.                                                         *)
(***************************************************************************)
C6_CheckCacheOrFetch ==
    [][/\ (chk.pc = "idle" /\ chk'.pc # "idle")
            => IF chk'.localStateSufficient /\ loginState.loggedIn
               THEN /\ chk'.pc = "returned"
                    /\ chk'.result = loginState
                    /\ http' = http
                    /\ loginState' = loginState
               ELSE /\ chk'.pc = "fetching"
                    /\ "check" \notin http
                    /\ http' = http \cup {"check"}
                    /\ loginState' = loginState
       /\ (chk.pc = "fetching" /\ chk'.pc = "returned")
            => /\ \E data \in Payloads :
                     loginState' = IF loginOptions.loginStateTransformer = "withNeeds"
                                   THEN [loggedIn |-> data.loggedIn,
                                         needsProvided |-> Arr(OrEmpty(data.needsProvided))]
                                   ELSE data
               /\ chk'.result = loginState'
               /\ "check" \in http /\ "check" \notin http']_vars

C6_Witness ==
    /\ chk.pc = "returned"
    /\ chk.localStateSufficient
    /\ ~chk.fetched
    /\ chk.result = loginState
    /\ loginState.loggedIn

(***************************************************************************)
(* C7.  Once the first usePopupLogin call has filled the options, no       *)
(* step changes any option, creates a channel or installs a handler,       *)
(* and a later usePopupLogin call leaves the queue of waiters as it is.    *)
(***************************************************************************)
C7_FirstCallWins ==
    [][loginOptions # NoOptions
          => /\ loginOptions' = loginOptions
             /\ channel' = channel
             /\ channel.created = 1 /\ channel.onmessage = 1
             /\ useArgs' # useArgs => promises' = promises]_vars

C7_Witness ==
    /\ loginOptions.loginUrl = DEFAULT_LOGIN_URL
    /\ loginOptions.loginStateTransformer = Null
    /\ useArgs.loginUrl = "/sso/login"
    /\ useArgs.loginStateTransformer = "withNeeds"
    /\ channel = [created |-> 1, onmessage |-> 1]
    /\ promises # <<>>

(***************************************************************************)
(* C8, as claimed.  Whenever the required list contains a string need s,   *)
(* authorize returns true if and only if s is among the provided needs.    *)
(***************************************************************************)
StringsOf(l) == {l[k] : k \in {j \in 1..Len(l) : l[j].kind = "string"}}
Among(n, l) == \E j \in 1..Len(l) : l[j] = n

C8_TrueIffStringProvided ==
    az.status = "returned"
        => \A s \in StringsOf(az.needsRequired) :
              az.result <=> Among(s, OrEmpty(az.args[2]))

(***************************************************************************)
(* C8, amended.  Whenever the required list contains a string need s       *)
(* that is among the provided needs, authorize returns true; when s is     *)
(* the only required need, it returns true only if s is among them.        *)
(***************************************************************************)
C8_TrueIfStringProvided ==
    az.status = "returned"
        => /\ \A s \in StringsOf(OrEmpty(az.args[1])) :
                 Among(s, OrEmpty(az.args[2])) => az.result
           /\ \A s \in StringNeeds :
                 az.args[1] = Arr(<<s>>)
                    => (az.result <=> Among(s, OrEmpty(az.args[2])))

C8_Witness ==
    /\ az.status = "returned"
    /\ az.args[1] = Arr(<<FunctionNeed("deny"), StringNeed("dev")>>)
    /\ az.args[2] = Arr(<<StringNeed("admin"), StringNeed("dev")>>)
    /\ az.result

(***************************************************************************)
(* C9.  For a required list of function needs only: the functions are      *)
(* called in the order of the list, one per iteration; authorize returns   *)
(* true iff one of them resolves truthy, and then none after the first     *)
(* truthy one has been called.                                             *)
(***************************************************************************)
OnlyFunctions(l) == \A k \in 1..Len(l) : l[k].kind = "function"
ResolvesTruthy(n) ==
    \/ n.fn = "allow"      \* resolves true
    \/ n.fn = "one"        \* resolves 1
FirstTruthy(l) ==
    IF \E k \in 1..Len(l) : ResolvesTruthy(l[k])
    THEN CHOOSE k \in 1..Len(l) :
            ResolvesTruthy(l[k]) /\ \A j \in 1..(k - 1) : ~ResolvesTruthy(l[j])
    ELSE Len(l)

C9_FunctionNeedsInOrderUntilTruthy ==
    LET l == OrEmpty(az.args[1]) IN
    (az.status # "none" /\ OnlyFunctions(l))
        => /\ Len(az.calls) <= Len(l)
           /\ \A k \in 1..Len(az.calls) : az.calls[k] = l[k].fn
           /\ az.status = "running" => Len(az.calls) = az.i - 1
           /\ az.status = "returned"
                 => /\ az.result <=> \E k \in 1..Len(l) : ResolvesTruthy(l[k])
                    /\ Len(az.calls) = FirstTruthy(l)

C9_Witness ==
    /\ az.status = "returned"
    /\ az.args[1] = Arr(<<FunctionNeed("deny"), FunctionNeed("one")>>)
    /\ az.calls = <<"deny", "one">>
    /\ az.result

(***************************************************************************)
(* C10.  The iteration on a required object need returns true iff some     *)
(* provided need that is an object has every field of the required         *)
(* object with the same value; provided strings and functions do not       *)
(* count, whatever fields they have.                                       *)
(***************************************************************************)
Contains(n, r) ==
    \A k \in Keys : r.o[k] # Absent => (n.o[k] # Absent /\ n.o[k] = r.o[k])

C10_ObjectNeedSubsetOfProvidedObject ==
    [][(/\ az.status = "running"
        /\ az.i <= Len(az.needsRequired)
        /\ az.needsRequired[az.i].kind = "object")
          => LET r == az.needsRequired[az.i]
                 p == OrEmpty(az.args[2])
                 satisfied == \E j \in 1..Len(p) :
                                 p[j].kind = "object" /\ Contains(p[j], r)
             IN IF satisfied
                THEN az'.status = "returned" /\ az'.result
                ELSE az'.status = "running" /\ az'.i = az.i + 1]_vars

C10_Witness ==
    /\ az.status = "returned"
    /\ az.result
    /\ az.args[1] = Arr(<<ObjectNeed(Fields(2, Absent, Absent)),
                          ObjectNeed(Fields(1, Absent, Absent))>>)
    /\ az.args[2] = Arr(<<StringNeed("dev"), ObjectNeed(Fields(1, 2, Absent))>>)

(***************************************************************************)
(* C11.  authorize returns true iff at least one required need is          *)
(* satisfied under the rule of its variant: a string need is among the     *)
(* provided needs, a function need resolves truthy, an object need is      *)
(* contained in a provided object.  It returns false for an empty or       *)
(* absent required list and when the list is exhausted, whatever the       *)
(* provided needs, an absent provided list included.                       *)
(***************************************************************************)
Satisfied(n, p) ==
    CASE n.kind = "string" -> Among(n, p)
      [] n.kind = "function" -> ResolvesTruthy(n)
      [] OTHER -> \E j \in 1..Len(p) : p[j].kind = "object" /\ Contains(p[j], n)

C11_TrueIffSomeNeedSatisfied ==
    az.status = "returned"
        => LET r == az.args[1]
               p == IF az.args[2].present THEN az.args[2].list ELSE <<>>
           IN /\ (~r.present \/ r.list = <<>>) => ~az.result
              /\ r.present
                    => (az.result <=> \E k \in 1..Len(r.list) : Satisfied(r.list[k], p))
              /\ ~az.result => az.i = Len(az.needsRequired) + 1

C11_Witness ==
    /\ az.status = "returned"
    /\ az.args[1] = Arr(<<StringNeed("admin"), FunctionNeed("one")>>)
    /\ az.args[2] = Undefined
    /\ az.calls = <<"one">>
    /\ az.result

(***************************************************************************)
(* C12.  A loginAndAuthorize call that found the session not logged in     *)
(* and whose showLoginPopup waiter a message took, the session still not   *)
(* logged in: once nothing is left to run, the call has returned false,    *)
(* without entering the matcher and without a login() of its own.          *)
(***************************************************************************)
C12_StillLoggedOutReturnsFalse ==
    (/\ Quiescent
     /\ la.pc # "idle"
     /\ ~la.authState.loggedIn
     /\ InDrained(popupWaiter(la.caller))
     /\ ~loginState.loggedIn)
        => /\ la.pc = "returned"
           /\ ~la.result
           /\ la.frame = NoFrame

\* the call of C12 as the handler leaves it: its waiter taken, the session
\* not logged in, and the call still waiting where lines 199-200 would
\* return false
C12_Witness ==
    /\ Quiescent
    /\ la.pc = "popup"
    /\ InDrained(popupWaiter(la.caller))
    /\ ~loginState.loggedIn
    /\ loginAndAuthorizeShown(la).pc = "returned"
    /\ ~loginAndAuthorizeShown(la).result
    /\ \A id \in LoginIds : logins[id].status = "none"

(***************************************************************************)
(* C13.  The router guard.  A navigation to a route without                *)
(* authorization calls next() at once and no loginAndAuthorize; to a       *)
(* route with authorization it calls loginAndAuthorize.  A waiting guard   *)
(* calls next() only in the step that takes a true result of its           *)
(* loginAndAuthorize call, once, and ends there; the step that takes a     *)
(* false result calls loginAndAuthorize again with the route's needs and   *)
(* does not call next().                                                   *)
(***************************************************************************)
C13_GuardNextOnlyAfterTrue ==
    [][/\ Navigate =>
            IF ~guard'.meta.authorization
            THEN /\ guard'.nexts = 1
                 /\ guard'.pc = "idle"
                 /\ UNCHANGED <<la, http, promises, noAccess>>
            ELSE /\ guard'.nexts = 0
                 /\ guard'.pc = "waiting"
                 /\ la'.caller = "guard"
                 /\ la'.pc \in {"check", "popup", "authorize"}
                 /\ la'.needsRequired = Arr(OrEmpty(guard'.meta.needsRequired))
       /\ guard.pc = "waiting" =>
            /\ guard.nexts = 0
            /\ guard.meta.authorization
            /\ guard'.nexts # guard.nexts =>
                  /\ la.caller = "guard" /\ la.pc = "returned" /\ la.result
                  /\ guard'.nexts = 1
                  /\ guard'.pc = "idle"
                  /\ la' = NoLa
            /\ (la.caller = "guard" /\ la.pc = "returned" /\ ~la.result /\ la' # la) =>
                  /\ guard' = guard
                  /\ la'.caller = "guard"
                  /\ la'.pc \in {"check", "popup", "authorize"}
                  /\ la'.needsRequired = Arr(OrEmpty(guard.meta.needsRequired))
       /\ guard.pc # "waiting" /\ ~Navigate => guard'.nexts = guard.nexts
      ]_vars

\* next() has been called for a route with authorization
C13_Witness ==
    /\ guard.pc = "idle"
    /\ guard.meta.authorization
    /\ guard.nexts = 1
    /\ loginState.loggedIn

(***************************************************************************)
(* C14, as claimed.  Waiters sit in the queue in the order in which they   *)
(* were enqueued: every step that enqueues leaves the waiters already      *)
(* queued where they are and puts its own behind them.                     *)
(***************************************************************************)
IsPrefix(s, t) == Len(s) <= Len(t) /\ \A k \in 1..Len(s) : s[k] = t[k]
Position(w, q) == CHOOSE k \in 1..Len(q) : q[k] = w

C14_WaitersInEnqueueOrder ==
    [][promises' # <<>> => IsPrefix(promises, promises')]_vars

(***************************************************************************)
(* C14, amended.  Every step that enqueues is either a showLoginPopup,     *)
(* which puts its waiter at the tail, or a login(), which puts its         *)
(* state-refresh waiter at the head and its resolving waiter at the        *)
(* tail.  So the queue is the state-refresh waiters of the login() calls,  *)
(* latest call first, followed by all resolving waiters in the order in    *)
(* which they were enqueued.                                               *)
(***************************************************************************)
C14_RefreshWaitersFirstThenEnqueueOrder ==
    [][/\ promises' # promises /\ promises' # <<>> =>
            \/ \E c \in {"app", "guard"} : promises' = Append(promises, popupWaiter(c))
            \/ \E id \in LoginIds :
                  /\ ~InQueue(checkWaiter(id)) /\ ~InQueue(resolveWaiter(id))
                  /\ \A j \in LoginIds :
                        (InQueue(checkWaiter(j)) \/ InQueue(resolveWaiter(j))) => j < id
                  /\ promises' = <<checkWaiter(id)>> \o promises \o <<resolveWaiter(id)>>
       /\ \A j, k \in 1..Len(promises') :
             LET v == promises'[j]
                 w == promises'[k]
             IN /\ (v.kind = "check" /\ w.kind # "check") => j < k
                /\ (v.kind = "check" /\ w.kind = "check" /\ v.login > w.login) => j < k
                /\ (v.kind = "resolve" /\ w.kind = "resolve" /\ v.login < w.login) => j < k
      ]_vars

\* two login() calls and a showLoginPopup between them
C14_Witness ==
    \E c \in {"app", "guard"} :
        promises = <<checkWaiter(2), checkWaiter(1), resolveWaiter(1),
                     popupWaiter(c), resolveWaiter(2)>>

(***************************************************************************)
(* C15.  In the queue, and in the batch the handler took from it, the      *)
(* two waiters of a login() whose popup opened are together, the           *)
(* state-refresh waiter once and before the resolving waiter, so that a    *)
(* loop over the batch reaches the refresh first.                          *)
(***************************************************************************)
Occurrences(w, q) == Cardinality({k \in 1..Len(q) : q[k] = w})
RefreshBeforeResolve(id, q) ==
    /\ Occurrences(checkWaiter(id), q) = Occurrences(resolveWaiter(id), q)
    /\ Occurrences(checkWaiter(id), q) <= 1
    /\ Occurrences(checkWaiter(id), q) = 1
          => Position(checkWaiter(id), q) < Position(resolveWaiter(id), q)

C15_RefreshBeforeResolve ==
    \A id \in LoginIds :
        /\ RefreshBeforeResolve(id, promises)
        /\ RefreshBeforeResolve(id, drained)
        /\ Occurrences(checkWaiter(id), promises)
              + Occurrences(checkWaiter(id), drained) <= 1
        /\ logins[id].status # "waiting"
              => (Occurrences(checkWaiter(id), promises)
                    + Occurrences(checkWaiter(id), drained) = 0)

\* the latest login() has both waiters queued while a message took those of
\* an earlier one
C15_Witness ==
    /\ drained = <<checkWaiter(1), resolveWaiter(1)>>
    /\ promises = <<checkWaiter(2), resolveWaiter(2)>>

(***************************************************************************)
(* C16.  The guard of a navigation to a route with authorization that      *)
(* found the session not logged in and called the no-access notifier; a    *)
(* login() whose popup opened; a message that took the waiters of both;    *)
(* the session state logged in and providing a required need of the        *)
(* route: once nothing is left to run, the guard has called next().        *)
(***************************************************************************)
C16_GuardedLoginFlowPremises ==
    /\ guard.meta.authorization
    /\ la.caller = "guard"
    /\ ~la.authState.loggedIn
    /\ \E k \in 1..Len(noAccess) : noAccess[k].extra = "guard"
    /\ InDrained(popupWaiter("guard"))
    /\ \E id \in LoginIds :
          /\ logins[id].popup
          /\ InDrained(checkWaiter(id))
          /\ InDrained(resolveWaiter(id))
    /\ loginState.loggedIn
    /\ LET r == OrEmpty(guard.meta.needsRequired)
       IN \E k \in 1..Len(r) : Satisfied(r[k], OrEmpty(loginState.needsProvided))

C16_GuardEventuallyCallsNext ==
    (Quiescent /\ C16_GuardedLoginFlowPremises)
        => (guard.pc = "idle" /\ guard.nexts = 1)

\* the flow of C16 with nothing left to run and the guard still waiting
C16_Witness ==
    /\ Quiescent
    /\ C16_GuardedLoginFlowPremises
    /\ guard.pc = "waiting"
    /\ la.pc = "popup"
    /\ promises = <<>>

(***************************************************************************)
(* C17.  The step of the message handler leaves the queue empty, for       *)
(* either message, and what it took is what was queued; waiters queued     *)
(* afterwards stay queued until the next message: a step that is not       *)
(* the handler's removes no waiter from the queue.                         *)
(***************************************************************************)
C17_OnlyMessagesDrainTheQueue ==
    [][/\ OnMessage => (promises' = <<>> /\ drained' = promises)
       /\ ~OnMessage =>
             /\ \A k \in 1..Len(promises) :
                   Occurrences(promises[k], promises') >= Occurrences(promises[k], promises)
             /\ drained' = drained
      ]_vars

\* a message took the waiters of the first login(), and the waiter of a
\* showLoginPopup queued after it is still there
C17_Witness ==
    /\ drained = <<checkWaiter(1), resolveWaiter(1)>>
    /\ \E c \in {"app", "guard"} : promises = <<popupWaiter(c)>>

(***************************************************************************)
(* C18.  A login() whose popup could not be opened queues no waiter.       *)
(* When its popup-failed notifier resolves true, the page goes to the      *)
(* login URL with, under the next query parameter, the configured          *)
(* redirectionCompleteUrl (passed through normalizeUrl) or else the        *)
(* location the page had; the promise of that login() is neither           *)
(* resolved nor rejected then or later, and the queue is as it was.        *)
(***************************************************************************)
C18_BlockedPopupRedirects ==
    [][\A id \in LoginIds :
          /\ (logins[id].status = "none" /\ logins'[id].status = "notifying")
                => (promises' = promises /\ href' = href)
          /\ (/\ logins[id].status = "notifying"
              /\ logins'[id].status # "notifying"
              /\ logins'[id].redirectionOk)
                => /\ logins'[id].status = "redirected"
                   /\ href'.path = loginOptions.loginUrl
                   /\ href'.param = loginOptions.nextQueryParam
                   /\ href'.next =
                         IF loginOptions.redirectionCompleteUrl \in {Null, ""}
                         THEN Raw(AppHref.path)
                         ELSE normalizeUrl(loginOptions.redirectionCompleteUrl)
                   /\ promises' = promises
          /\ logins[id].status = "redirected"
                => (logins'[id] = logins[id] /\ href' = href)
          /\ logins'[id].status \in {"notifying", "redirected"}
                => /\ Occurrences(checkWaiter(id), promises' \o drained') = 0
                   /\ Occurrences(resolveWaiter(id), promises' \o drained') = 0
      ]_vars

\* the page has left for the login URL with the configured return URL, the
\* waiters of an earlier login() still queued
C18_Witness ==
    /\ logins[2].status = "redirected"
    /\ logins[2].redirectionOk
    /\ href.path = loginOptions.loginUrl
    /\ href.next.normalized
    /\ promises = <<checkWaiter(1), resolveWaiter(1)>>

(***************************************************************************)
(* C19.  The step in which a loginAndAuthorize call reaches                *)
(* showLoginPopup appends one resolving waiter at the tail of the queue    *)
(* and calls the no-access notifier once, with the session state as it     *)
(* is then and the caller's extra; it opens no popup and starts no         *)
(* request.  The call then waits, its waiter queued until a message        *)
(* takes it.                                                               *)
(***************************************************************************)
C19_ShowLoginPopupQueuesOneWaiter ==
    [][/\ (la.pc # "popup" /\ la'.pc = "popup")
             => /\ ~la'.authState.loggedIn
                /\ promises' = Append(promises, popupWaiter(la'.caller))
                /\ noAccess' = Append(noAccess, [state |-> loginState',
                                                 extra |-> la'.caller])
                /\ logins' = logins
                /\ href' = href
                /\ http' \subseteq http
       /\ ~(la.pc # "popup" /\ la'.pc = "popup")
             => /\ noAccess' = noAccess
                /\ \A c \in {"app", "guard"} :
                      Occurrences(popupWaiter(c), promises')
                         <= Occurrences(popupWaiter(c), promises)
       /\ (la.pc = "popup" /\ InQueue(popupWaiter(la.caller)))
             => \/ Occurrences(popupWaiter(la.caller), promises') = 1
                \/ OnMessage /\ Occurrences(popupWaiter(la.caller), drained') = 1
       /\ (la.pc = "popup" /\ ~OnMessage) => la'.pc = "popup"
      ]_vars

\* the guard's call waits in showLoginPopup behind the waiters of a login()
C19_Witness ==
    /\ la.pc = "popup"
    /\ la.caller = "guard"
    /\ promises = <<checkWaiter(1), resolveWaiter(1), popupWaiter("guard")>>
    /\ noAccess = <<[state |-> loginState, extra |-> "guard"]>>

(***************************************************************************)
(* C20.  When the request of check() or the transformer fails, the call    *)
(* ends with the failure for its caller, the session state is what it      *)
(* was, and the call leaves no request behind; a failure of check(true)    *)
(* inside loginAndAuthorize ends that call with the failure, before        *)
(* showLoginPopup and the matcher, and the guard that awaited it ends      *)
(* with the failure without calling next().                                *)
(***************************************************************************)
C20_CheckFailurePropagates ==
    [][/\ (chk.pc = "fetching" /\ chk'.pc = "failed")
             => /\ loginState' = loginState
                /\ "check" \notin http'
                /\ http' \subseteq http
       /\ chk.pc = "failed" => chk'.pc \in {"failed", "idle"}
       /\ (la.pc = "check" /\ la'.pc = "failed")
             => /\ loginState' = loginState
                /\ "loginAndAuthorize" \notin http'
                /\ http' \subseteq http
                /\ la'.caller = la.caller
                /\ la'.frame = NoFrame
                /\ promises' = promises
                /\ noAccess' = noAccess
       /\ (la.pc = "failed" /\ la' # la)
             => /\ la' = NoLa
                /\ loginState' = loginState
                /\ http' = http
                /\ la.caller = "guard"
                      => (guard'.pc = "failed" /\ guard'.nexts = guard.nexts)
      ]_vars

\* the guard has ended with the failure of its loginAndAuthorize call, and
\* a later check() of the application has failed with the session logged in
C20_Witness ==
    /\ guard.pc = "failed"
    /\ guard.nexts = 0
    /\ la = NoLa
    /\ chk.pc = "failed"
    /\ http = {}
    /\ loginState.loggedIn
====
